---- MODULE Spec2Model ----
(***************************************************************************)
(* Model of the request handlers of backend/app.py: analyze_text,          *)
(* gemini_analyze_text and convert_audio_to_text, with the three external  *)
(* providers (Groq transcription, the local sentiment pipeline, the Gemini *)
(* generator) as nondeterministic environments.                            *)
(***************************************************************************)
EXTENDS Integers, Sequences, FiniteSets, TLC

\* ---------------------------------------------------------------- bounds
MaxRequests == 3

\* ---------------------------------------------------------------- inputs
\* texts of a TextRequest / transcripts Groq can return ("" = no speech)
Texts == {"", "I feel hopeless"}

\* what the sentiment pipeline can emit: a list of {label, score} dicts
RawLabels == {"LABEL_0", "LABEL_1", "LABEL_2"}
Confidences == {51, 99}
ClassifierOutputs ==
    {<< >>} \cup {<<[label |-> l, score |-> s]>> : l \in RawLabels, s \in Confidences}

\* exception texts of the providers
ExcTexts == {"connection reset", "quota exceeded"}

\* what the generator can write: abstracted to the facts the schema is about
GenTexts ==
    [json : BOOLEAN, complete : BOOLEAN, overall_risk_score : {0, 100, 101},
     risk_category : {"Low", "Critical"},
     key_excerpts : {3, 4}, recommended_actions : {3, 4}]

\* a Gemini response object: parts present with a text, or no parts and a
\* prompt_feedback that is absent, has no block_reason, or names one
GeneratorResponses ==
    {[parts |-> TRUE, text |-> t, prompt_feedback |-> "absent"] : t \in GenTexts}
    \cup {[parts |-> FALSE, text |-> CHOOSE t \in GenTexts : TRUE, prompt_feedback |-> f] :
            f \in {"absent", "no_block_reason", "SAFETY"}}

\* errors Groq can raise: a GroqError with a status code, one without, or
\* any other exception
GroqFailures ==
    {[cls |-> "GroqError", status_code |-> 429, text |-> "quota exceeded"],
     [cls |-> "GroqError", status_code |-> 0, text |-> "connection reset"],
     [cls |-> "Exception", status_code |-> 0, text |-> "connection reset"]}

\* path parameters of GET /texts/{id}: one that is no ObjectId, and two
\* ObjectIds of which the collection stores the first
Ids == {"not-an-object-id", "6623a1b2c3d4e5f6a7b8c9d0", "6623a1b2c3d4e5f6a7b8c9d1"}

\* ObjectId(id) does not raise
IsObjectId(i) == i # "not-an-object-id"

\* the _id values of the documents of the texts collection
text_collection == {"6623a1b2c3d4e5f6a7b8c9d0"}

\* ---------------------------------------------------------------- values
NoneVal == [type |-> "None"]

HTTPException(status_code, detail) == [status |-> status_code, detail |-> detail]

\* str(HTTPException): "<status>: <detail>"
StrOfStatus(s) ==
    CASE s = 500 -> "500" [] s = 503 -> "503" [] s = 429 -> "429"
      [] s = 400 -> "400" [] s = 404 -> "404" [] OTHER -> "200"

StrHTTPException(e) == <<StrOfStatus(e.status), ": ">> \o e.detail

ErrorResponse(e) == [status |-> e.status, body |-> [type |-> "detail", detail |-> e.detail]]

OkResponse(body) == [status |-> 200, body |-> body]

VARIABLES
    groq_client,                    \* "ok" or "none": module-level client handle
    nreq,                           \* requests served so far
    reqKind,                        \* endpoint being handled
    pc,                             \* position of the handler
    request_text,                   \* TextRequest.text seen by the analyzers
    transcript,                     \* convert_audio_to_text local
    transcription,                  \* "none" | "ok" | "failed"
    sentiment_analysis_result_dict, \* convert_audio_to_text local
    gemini_analysis_result,         \* convert_audio_to_text local
    generator_response,             \* first response object of the generator
    response,                       \* what the caller receives
    file_closed,                    \* audio_file.close() has run
    calls,                          \* provider invocations of this request
    inflight,                       \* provider calls awaiting an answer
    failures,                       \* providers that failed in this request
    overlap,                        \* two analyzer calls were in flight together
    answers,                        \* what each provider answered in this request
    id,                             \* path parameter of get_text_by_id
    seen,                           \* audio requests served: inputs and report
    startup                         \* what module initialisation met: key, constructor

vars == <<groq_client, nreq, reqKind, pc, request_text, transcript, transcription,
          sentiment_analysis_result_dict, gemini_analysis_result,
          generator_response, response, file_closed, calls, inflight, failures, overlap,
          answers, id, seen, startup>>

NoCalls == [groq |-> 0, classifier |-> 0, generator |-> 0, mongo |-> 0]

Providers == {"read", "groq", "classifier", "generator", "mongo"}

NoAnswers == [p \in Providers |-> NoneVal]

\* a provider call returned a value / raised an exception with a text
Returned(value) == [type |-> "returned", value |-> value]

Raised(exc) == [type |-> "raised", exc |-> exc]

\* the transcription call raised e: its class and status code with its text
RaisedGroq(e) ==
    [type |-> "raised", exc |-> e.text, cls |-> e.cls, status_code |-> e.status_code]

\* variant: the client is kept although GROQ_API is not set
GroqClientInit_KeyUnchecked(key_set, constructor_raises) ==
    IF constructor_raises THEN "none" ELSE "ok"

\* module initialisation of groq_client: None when Groq(...) raises or when
\* GROQ_API is not set
GroqClientInit(key_set, constructor_raises) ==
    IF constructor_raises THEN "none"
    ELSE IF ~key_set THEN "none"
    ELSE "ok"

Init ==
    /\ startup \in [GROQ_API : BOOLEAN, constructor_raises : BOOLEAN]
    /\ groq_client = GroqClientInit(startup.GROQ_API, startup.constructor_raises)
    /\ nreq = 0
    /\ reqKind = "none"
    /\ pc = "idle"
    /\ request_text = ""
    /\ transcript = ""
    /\ transcription = "none"
    /\ sentiment_analysis_result_dict = NoneVal
    /\ gemini_analysis_result = NoneVal
    /\ generator_response = NoneVal
    /\ response = NoneVal
    /\ file_closed = FALSE
    /\ calls = NoCalls
    /\ inflight = {}
    /\ failures = {}
    /\ overlap = FALSE
    /\ answers = NoAnswers
    /\ id = ""
    /\ seen = {}

\* ------------------------------------------------------- provider calls
Analyzers == {"classifier", "generator"}

\* a provider call is issued: it is counted and awaits its answer
StartCall(provider) ==
    /\ calls' = [calls EXCEPT ![provider] = @ + 1]
    /\ inflight' = inflight \cup {provider}
    /\ overlap' = (overlap \/ Analyzers \subseteq (inflight \cup {provider}))

EndCall(provider) ==
    /\ inflight' = inflight \ {provider}
    /\ UNCHANGED <<calls, overlap>>

\* ------------------------------------------------------- analyze_text
\* POST /analyze-text
AnalyzeTextRequest(text) ==
    /\ pc = "idle"
    /\ UNCHANGED answers
    /\ nreq < MaxRequests
    /\ nreq' = nreq + 1
    /\ reqKind' = "analyze_text"
    /\ request_text' = text
    /\ StartCall("classifier")
    /\ pc' = "classifying"
    /\ UNCHANGED <<groq_client, startup, id, seen, transcript, transcription, sentiment_analysis_result_dict,
                   gemini_analysis_result, generator_response, response, file_closed,
                   failures>>

\* the except branch of analyze_text
AnalyzeTextError == HTTPException(500, <<"Error processing text with sentiment model.">>)

\* the label rewrite of convert_audio_to_text
MapLabel(label) ==
    IF label = "LABEL_0" THEN "Non-Suicidal"
    ELSE IF label = "LABEL_1" THEN "Suicidal"
    ELSE label

\* what convert_audio_to_text keeps of the list analyze_text returned
SentimentDict(sentiment_result_list) ==
    IF Len(sentiment_result_list) > 0
    THEN [type |-> "dict",
          label |-> MapLabel(sentiment_result_list[1].label),
          score |-> sentiment_result_list[1].score]
    ELSE [type |-> "error", error |-> <<"Invalid format from local model">>]

\* the except branch around the internal call of analyze_text
SentimentError(sentiment_e) ==
    [type |-> "error",
     error |-> <<"Failed to get local sentiment analysis: ">> \o StrHTTPException(sentiment_e)]

\* classifier(text) returns
ClassifierReturns(out) ==
    /\ pc = "classifying"
    /\ answers' = [answers EXCEPT !["classifier"] = Returned(out)]
    /\ "classifier" \in inflight
    /\ EndCall("classifier")
    /\ IF reqKind = "analyze_text"
       THEN /\ response' = OkResponse([type |-> "list", items |-> out])
            /\ pc' = "done"
            /\ UNCHANGED sentiment_analysis_result_dict
       ELSE /\ sentiment_analysis_result_dict' = SentimentDict(out)
            /\ pc' = "gemini_step"
            /\ UNCHANGED response
    /\ UNCHANGED <<groq_client, startup, id, seen, nreq, reqKind, request_text, transcript, transcription,
                   gemini_analysis_result, generator_response, file_closed, failures>>

\* variant: analyze_text answers 200 with an error entry instead of raising
ClassifierFails_Recovered(exc) ==
    /\ pc = "classifying"
    /\ answers' = [answers EXCEPT !["classifier"] = Raised(exc)]
    /\ "classifier" \in inflight
    /\ EndCall("classifier")
    /\ failures' = failures \cup {"classifier"}
    /\ IF reqKind = "analyze_text"
       THEN /\ response' = OkResponse(SentimentError(AnalyzeTextError))
            /\ pc' = "done"
            /\ UNCHANGED sentiment_analysis_result_dict
       ELSE /\ sentiment_analysis_result_dict' = SentimentError(AnalyzeTextError)
            /\ pc' = "gemini_step"
            /\ UNCHANGED response
    /\ UNCHANGED <<groq_client, startup, id, seen, nreq, reqKind, request_text, transcript, transcription,
                   gemini_analysis_result, generator_response, file_closed>>

\* pipeline(...) or classifier(text) raises
ClassifierFails(exc) ==
    /\ pc = "classifying"
    /\ answers' = [answers EXCEPT !["classifier"] = Raised(exc)]
    /\ "classifier" \in inflight
    /\ EndCall("classifier")
    /\ failures' = failures \cup {"classifier"}
    /\ IF reqKind = "analyze_text"
       THEN /\ response' = ErrorResponse(AnalyzeTextError)
            /\ pc' = "done"
            /\ UNCHANGED sentiment_analysis_result_dict
       ELSE /\ sentiment_analysis_result_dict' = SentimentError(AnalyzeTextError)
            /\ pc' = "gemini_step"
            /\ UNCHANGED response
    /\ UNCHANGED <<groq_client, startup, id, seen, nreq, reqKind, request_text, transcript, transcription,
                   gemini_analysis_result, generator_response, file_closed>>

\* ------------------------------------------------- gemini_analyze_text
\* POST /gemini-analyze-text
GeminiRequest(text) ==
    /\ pc = "idle"
    /\ UNCHANGED answers
    /\ nreq < MaxRequests
    /\ nreq' = nreq + 1
    /\ reqKind' = "gemini"
    /\ request_text' = text
    /\ StartCall("generator")
    /\ pc' = "generating"
    /\ UNCHANGED <<groq_client, startup, id, seen, transcript, transcription, sentiment_analysis_result_dict,
                   gemini_analysis_result, generator_response, response, file_closed,
                   failures>>

FeedbackReason(resp) ==
    IF resp.prompt_feedback = "absent" THEN "Unknown"
    ELSE IF resp.prompt_feedback = "no_block_reason" THEN "No specific reason provided"
    ELSE resp.prompt_feedback

\* the outer except branch of gemini_analyze_text, e given as its text
GeminiError(e_text) ==
    HTTPException(500, <<"Error communicating with generative model: ">> \o e_text)

\* what gemini_analyze_text does with the response object
GeminiResult(resp) ==
    IF resp.parts
    THEN [ok |-> TRUE, value |-> [type |-> "generated", generated_text |-> resp.text]]
    ELSE [ok |-> FALSE,
          exc |-> GeminiError(StrHTTPException(
                    HTTPException(500, <<"Failed to generate content. Reason: ",
                                         FeedbackReason(resp)>>)))]

\* the two except branches around the internal call of gemini_analyze_text
GeminiHTTPError(gemini_http_e) ==
    [type |-> "error",
     error |-> <<"Gemini analysis failed (HTTP ", StrOfStatus(gemini_http_e.status), "): ">>
               \o gemini_http_e.detail]

\* gemini_analyze_text ends with result r, in the endpoint or inside
\* convert_audio_to_text
FinishGemini(r) ==
    IF reqKind = "gemini"
    THEN /\ response' = (IF r.ok THEN OkResponse(r.value) ELSE ErrorResponse(r.exc))
         /\ pc' = "done"
         /\ UNCHANGED gemini_analysis_result
    ELSE /\ gemini_analysis_result' = (IF r.ok THEN r.value ELSE GeminiHTTPError(r.exc))
         /\ pc' = "returning"
         /\ UNCHANGED response

\* generate_content_async returns
GeneratorReturns(resp) ==
    /\ pc = "generating"
    /\ answers' = [answers EXCEPT !["generator"] = Returned(resp)]
    /\ "generator" \in inflight
    /\ EndCall("generator")
    /\ generator_response' = resp
    /\ failures' = (IF resp.parts THEN failures ELSE failures \cup {"generator"})
    /\ FinishGemini(GeminiResult(resp))
    /\ UNCHANGED <<groq_client, startup, id, seen, nreq, reqKind, request_text, transcript, transcription,
                   sentiment_analysis_result_dict, file_closed>>

\* GenerativeModel(...) or generate_content_async raises
GeneratorFails(exc) ==
    /\ pc = "generating"
    /\ answers' = [answers EXCEPT !["generator"] = Raised(exc)]
    /\ "generator" \in inflight
    /\ EndCall("generator")
    /\ failures' = failures \cup {"generator"}
    /\ FinishGemini([ok |-> FALSE, exc |-> GeminiError(<<exc>>)])
    /\ UNCHANGED <<groq_client, startup, id, seen, nreq, reqKind, request_text, transcript, transcription,
                   sentiment_analysis_result_dict, generator_response, file_closed>>

\* ----------------------------------------------- convert_audio_to_text
\* POST /convert-audio-to-text: the client check, then the locals
AudioRequest ==
    /\ pc = "idle"
    /\ UNCHANGED answers
    /\ nreq < MaxRequests
    /\ nreq' = nreq + 1
    /\ reqKind' = "audio"
    /\ IF groq_client = "none"
       THEN /\ response' = ErrorResponse(HTTPException(503,
                   <<"Groq transcription service is not available (client not initialized).">>))
            /\ pc' = "done"
       ELSE /\ pc' = "reading"
            /\ UNCHANGED response
    /\ UNCHANGED <<groq_client, startup, id, seen, request_text, transcript, transcription,
                   sentiment_analysis_result_dict, gemini_analysis_result,
                   generator_response, file_closed, calls, inflight, failures, overlap>>

\* except GroqError
GroqErrorHandler(e) ==
    HTTPException(IF e.status_code # 0 THEN e.status_code ELSE 500,
                  <<"Groq API error: ", e.text>>)

\* except Exception
AudioExceptionHandler(e) ==
    HTTPException(500, <<"Error processing audio file: ", e.text>>)

AudioFailure(e) ==
    IF e.cls = "GroqError" THEN GroqErrorHandler(e) ELSE AudioExceptionHandler(e)

\* audio_file.read() returns and the transcription request is sent
ReadAudio ==
    /\ pc = "reading"
    /\ UNCHANGED answers
    /\ StartCall("groq")
    /\ pc' = "transcribing"
    /\ UNCHANGED <<groq_client, startup, id, seen, nreq, reqKind, request_text, transcript, transcription,
                   sentiment_analysis_result_dict, gemini_analysis_result,
                   generator_response, response, file_closed, failures>>

\* audio_file.read() raises
ReadFails(exc) ==
    /\ pc = "reading"
    /\ answers' = [answers EXCEPT !["read"] = Raised(exc)]
    /\ failures' = failures \cup {"read"}
    /\ response' = ErrorResponse(AudioFailure([cls |-> "Exception", status_code |-> 0,
                                               text |-> exc]))
    /\ file_closed' = TRUE
    /\ pc' = "done"
    /\ UNCHANGED <<groq_client, startup, id, seen, nreq, reqKind, request_text, transcript, transcription,
                   sentiment_analysis_result_dict, gemini_analysis_result,
                   generator_response, calls, inflight, overlap>>

\* variant: a transcription failure is swallowed and analysis goes on
GroqFails_Swallowed(e) ==
    /\ pc = "transcribing"
    /\ answers' = [answers EXCEPT !["groq"] = RaisedGroq(e)]
    /\ "groq" \in inflight
    /\ transcription' = "failed"
    /\ failures' = failures \cup {"groq"}
    /\ request_text' = transcript
    /\ calls' = [calls EXCEPT !["classifier"] = @ + 1]
    /\ inflight' = (inflight \ {"groq"}) \cup {"classifier"}
    /\ overlap' = overlap
    /\ pc' = "classifying"
    /\ UNCHANGED <<groq_client, startup, id, seen, nreq, reqKind, transcript, response, file_closed,
                   sentiment_analysis_result_dict, gemini_analysis_result,
                   generator_response>>

\* groq_client.audio.transcriptions.create raises
GroqFails(e) ==
    /\ pc = "transcribing"
    /\ answers' = [answers EXCEPT !["groq"] = RaisedGroq(e)]
    /\ "groq" \in inflight
    /\ EndCall("groq")
    /\ transcription' = "failed"
    /\ failures' = failures \cup {"groq"}
    /\ response' = ErrorResponse(AudioFailure(e))
    /\ file_closed' = TRUE
    /\ pc' = "done"
    /\ UNCHANGED <<groq_client, startup, id, seen, nreq, reqKind, request_text, transcript,
                   sentiment_analysis_result_dict, gemini_analysis_result,
                   generator_response>>

\* the early return on an empty transcript
EmptyTranscriptReport ==
    [type |-> "report",
     transcription |-> "",
     sentiment_analysis |-> NoneVal,
     gemini_analysis |-> NoneVal,
     message |-> "Transcription successful but no speech detected."]

\* variant: no early return on an empty transcript
GroqReturns_NoEmptyCheck(t) ==
    /\ pc = "transcribing"
    /\ answers' = [answers EXCEPT !["groq"] = Returned(t)]
    /\ "groq" \in inflight
    /\ transcript' = t
    /\ transcription' = "ok"
    /\ request_text' = t
    /\ calls' = [calls EXCEPT !["classifier"] = @ + 1]
    /\ inflight' = (inflight \ {"groq"}) \cup {"classifier"}
    /\ overlap' = overlap
    /\ pc' = "classifying"
    /\ UNCHANGED <<groq_client, startup, id, seen, nreq, reqKind, sentiment_analysis_result_dict,
                   gemini_analysis_result, generator_response, failures, response,
                   file_closed>>

\* variant: analyze_text is started as a task and not awaited
GroqReturns_NotAwaited(t) ==
    /\ pc = "transcribing"
    /\ answers' = [answers EXCEPT !["groq"] = Returned(t)]
    /\ "groq" \in inflight
    /\ transcript' = t
    /\ transcription' = "ok"
    /\ IF t = ""
       THEN /\ EndCall("groq")
            /\ response' = OkResponse(EmptyTranscriptReport)
            /\ file_closed' = TRUE
            /\ pc' = "done"
            /\ UNCHANGED request_text
       ELSE /\ request_text' = t
            /\ calls' = [calls EXCEPT !["classifier"] = @ + 1]
            /\ inflight' = (inflight \ {"groq"}) \cup {"classifier"}
            /\ overlap' = overlap
            /\ pc' = "gemini_step"
            /\ UNCHANGED <<response, file_closed>>
    /\ UNCHANGED <<groq_client, startup, id, seen, nreq, reqKind, sentiment_analysis_result_dict,
                   gemini_analysis_result, generator_response, failures>>

\* variant: both analyzers are started together (a gather)
GroqReturns_Gathered(t) ==
    /\ pc = "transcribing"
    /\ answers' = [answers EXCEPT !["groq"] = Returned(t)]
    /\ "groq" \in inflight
    /\ transcript' = t
    /\ transcription' = "ok"
    /\ IF t = ""
       THEN /\ EndCall("groq")
            /\ response' = OkResponse(EmptyTranscriptReport)
            /\ file_closed' = TRUE
            /\ pc' = "done"
            /\ UNCHANGED request_text
       ELSE /\ request_text' = t
            /\ calls' = [calls EXCEPT !["classifier"] = @ + 1, !["generator"] = @ + 1]
            /\ inflight' = (inflight \ {"groq"}) \cup Analyzers
            /\ overlap' = TRUE
            /\ pc' = "classifying"
            /\ UNCHANGED <<response, file_closed>>
    /\ UNCHANGED <<groq_client, startup, id, seen, nreq, reqKind, sentiment_analysis_result_dict,
                   gemini_analysis_result, generator_response, failures>>

\* groq_client.audio.transcriptions.create returns text t
GroqReturns(t) ==
    /\ pc = "transcribing"
    /\ answers' = [answers EXCEPT !["groq"] = Returned(t)]
    /\ "groq" \in inflight
    /\ transcript' = t
    /\ transcription' = "ok"
    /\ IF t = ""
       THEN /\ EndCall("groq")
            /\ response' = OkResponse(EmptyTranscriptReport)
            /\ file_closed' = TRUE
            /\ pc' = "done"
            /\ UNCHANGED request_text
       ELSE /\ request_text' = t
            /\ calls' = [calls EXCEPT !["classifier"] = @ + 1]
            /\ inflight' = (inflight \ {"groq"}) \cup {"classifier"}
            /\ overlap' = (overlap \/ Analyzers \subseteq inflight')
            /\ pc' = "classifying"
            /\ UNCHANGED <<response, file_closed>>
    /\ UNCHANGED <<groq_client, startup, id, seen, nreq, reqKind, sentiment_analysis_result_dict,
                   gemini_analysis_result, generator_response, failures>>

\* combined_message = sentiment_analysis_result_dict + analysis_request:
\* dict has no __add__ and TextRequest no __radd__
DictPlusRequest(d, text) ==
    [raised |-> TRUE,
     exc |-> "unsupported operand type(s) for +: 'dict' and 'TextRequest'",
     text |-> text]

\* except Exception as gemini_e
GeminiStepError(gemini_e) ==
    [type |-> "error", error |-> <<"Failed to get Gemini analysis: ", gemini_e>>]

\* the try block that calls gemini_analyze_text
GeminiStep ==
    /\ pc = "gemini_step"
    /\ UNCHANGED answers
    /\ LET combined_message == DictPlusRequest(sentiment_analysis_result_dict, request_text)
       IN IF combined_message.raised
          THEN /\ gemini_analysis_result' = GeminiStepError(combined_message.exc)
               /\ pc' = "returning"
               /\ UNCHANGED <<request_text, calls, inflight, overlap>>
          ELSE /\ request_text' = combined_message.text
               /\ StartCall("generator")
               /\ pc' = "generating"
               /\ UNCHANGED gemini_analysis_result
    /\ UNCHANGED <<groq_client, startup, id, seen, nreq, reqKind, transcript, transcription,
                   sentiment_analysis_result_dict, generator_response, response,
                   file_closed, failures>>

\* variant: the report is stamped with the number of the request
ReturnResult_Stamped ==
    /\ pc = "returning"
    /\ UNCHANGED answers
    /\ response' = OkResponse([type |-> "stamped", request |-> nreq,
                               result |-> gemini_analysis_result])
    /\ file_closed' = TRUE
    /\ pc' = "done"
    /\ UNCHANGED <<groq_client, startup, id, seen, nreq, reqKind, request_text, transcript,
                   transcription, sentiment_analysis_result_dict, gemini_analysis_result,
                   generator_response, calls, inflight, failures, overlap>>

\* return gemini_analysis_result, then the finally block
ReturnResult ==
    /\ pc = "returning"
    /\ UNCHANGED answers
    /\ response' = OkResponse(gemini_analysis_result)
    /\ file_closed' = TRUE
    /\ pc' = "done"
    /\ UNCHANGED <<groq_client, startup, id, seen, nreq, reqKind, request_text, transcript, transcription,
                   sentiment_analysis_result_dict, gemini_analysis_result,
                   generator_response, calls, inflight, failures, overlap>>

\* the response is sent and the handler's locals are discarded
RequestDone ==
    /\ pc = "done"
    /\ pc' = "idle"
    /\ reqKind' = "none"
    /\ request_text' = ""
    /\ transcript' = ""
    /\ transcription' = "none"
    /\ sentiment_analysis_result_dict' = NoneVal
    /\ gemini_analysis_result' = NoneVal
    /\ generator_response' = NoneVal
    /\ response' = NoneVal
    /\ file_closed' = FALSE
    /\ calls' = NoCalls
    /\ inflight' = {}
    /\ failures' = {}
    /\ overlap' = FALSE
    /\ answers' = NoAnswers
    /\ id' = ""
    /\ seen' = (IF reqKind = "audio"
                THEN seen \cup {[client |-> groq_client, answers |-> answers,
                                report |-> response]}
                ELSE seen)
    /\ UNCHANGED <<groq_client, startup, nreq>>

\* ------------------------------------------------------ get_text_by_id
\* GET /texts/{id}: ObjectId(id), then the lookup is sent
GetTextRequest(i) ==
    /\ pc = "idle"
    /\ nreq < MaxRequests
    /\ nreq' = nreq + 1
    /\ reqKind' = "get_text"
    /\ id' = i
    /\ IF ~IsObjectId(i)
       THEN /\ response' = ErrorResponse(HTTPException(400, <<"Invalid ID format: ", i>>))
            /\ pc' = "done"
            /\ UNCHANGED <<calls, inflight, overlap>>
       ELSE /\ StartCall("mongo")
            /\ pc' = "finding"
            /\ UNCHANGED response
    /\ UNCHANGED <<groq_client, startup, seen, request_text, transcript, transcription,
                   sentiment_analysis_result_dict, gemini_analysis_result,
                   generator_response, file_closed, failures, answers>>

\* text_collection.find_one({"_id": obj_id})
FindOne(obj_id) ==
    IF obj_id \in text_collection THEN [type |-> "doc", _id |-> obj_id] ELSE NoneVal

\* raise HTTPException(404) inside the try block
GetTextNotFound(i) == HTTPException(404, <<"Text with id ", i, " not found">>)

\* except Exception as e of get_text_by_id: whatever the try block raised
GetTextExcept(e) == HTTPException(500, <<"Error retrieving data from database.">>)

\* find_one returns
FindOneReturns ==
    /\ pc = "finding"
    /\ "mongo" \in inflight
    /\ EndCall("mongo")
    /\ answers' = [answers EXCEPT !["mongo"] = Returned(FindOne(id))]
    /\ response' = (IF FindOne(id) # NoneVal
                    THEN OkResponse(FindOne(id))
                    ELSE ErrorResponse(GetTextExcept(GetTextNotFound(id))))
    /\ pc' = "done"
    /\ UNCHANGED <<groq_client, startup, id, seen, nreq, reqKind, request_text, transcript,
                   transcription, sentiment_analysis_result_dict, gemini_analysis_result,
                   generator_response, file_closed, failures>>

\* find_one raises
FindOneFails(exc) ==
    /\ pc = "finding"
    /\ "mongo" \in inflight
    /\ EndCall("mongo")
    /\ answers' = [answers EXCEPT !["mongo"] = Raised(exc)]
    /\ failures' = failures \cup {"mongo"}
    /\ response' = ErrorResponse(GetTextExcept(Raised(exc)))
    /\ pc' = "done"
    /\ UNCHANGED <<groq_client, startup, id, seen, nreq, reqKind, request_text, transcript,
                   transcription, sentiment_analysis_result_dict, gemini_analysis_result,
                   generator_response, file_closed>>

Next ==
    \/ \E i \in Ids : GetTextRequest(i)
    \/ FindOneReturns
    \/ \E exc \in ExcTexts : FindOneFails(exc)
    \/ AudioRequest
    \/ ReadAudio
    \/ \E exc \in ExcTexts : ReadFails(exc)
    \/ \E e \in GroqFailures : GroqFails(e)
    \/ \E t \in Texts : GroqReturns(t)
    \/ GeminiStep
    \/ ReturnResult
    \/ RequestDone
    \/ \E text \in Texts : AnalyzeTextRequest(text)
    \/ \E out \in ClassifierOutputs : ClassifierReturns(out)
    \/ \E exc \in ExcTexts : ClassifierFails(exc)
    \/ \E text \in Texts : GeminiRequest(text)
    \/ \E resp \in GeneratorResponses : GeneratorReturns(resp)
    \/ \E exc \in ExcTexts : GeneratorFails(exc)


Spec == Init /\ [][Next]_vars

\* the handler's own steps are scheduled by the event loop; an answer of a
\* provider is not something the program can force
HandlerStep ==
    \/ ReadAudio
    \/ \E exc \in ExcTexts : ReadFails(exc)
    \/ GeminiStep
    \/ ReturnResult
    \/ RequestDone

FairSpec == Spec /\ WF_vars(HandlerStep)
\* ---------------------------------------------------------------- claims
Done == pc = "done"

\* an audio request that got as far as the analyzers
AudioAnalysed == reqKind = "audio" /\ transcription = "ok" /\ transcript # ""

HasField(r, f) == f \in DOMAIN r

HasWarnings ==
    /\ HasField(response.body, "warnings")
    /\ response.body.warnings # << >>

\* the invariants of a RiskReport (score range, list sizes) on a generator text
SchemaValid(t) ==
    /\ t.json
    /\ t.complete
    /\ t.overall_risk_score \in 0..100
    /\ t.key_excerpts <= 3
    /\ t.recommended_actions <= 3

\* C1: an audio request with a non-empty transcript ends with a normal
\* response in which both analyzers were invoked, whichever of them failed,
\* and every analyzer failure is recorded as a warning.
C1_IndependentBranches ==
    (Done /\ AudioAnalysed) =>
        /\ response.status = 200
        /\ calls.classifier = 1
        /\ calls.generator = 1
        /\ (sentiment_analysis_result_dict.type = "error"
            \/ gemini_analysis_result.type = "error") => HasWarnings

\* C2: the final response of a completed audio request carries the
\* transcript and the results of both analyzers, and a non-empty warnings
\* list when the sentiment classifier failed.
C2_ReturnsAllResults ==
    (Done /\ AudioAnalysed /\ response.status = 200) =>
        /\ HasField(response.body, "transcription")
        /\ HasField(response.body, "sentiment_analysis")
        /\ HasField(response.body, "gemini_analysis")
        /\ response.body.transcription = transcript
        /\ response.body.sentiment_analysis = sentiment_analysis_result_dict
        /\ response.body.gemini_analysis = gemini_analysis_result
        /\ ("classifier" \in failures => HasWarnings)

\* C3: a successful answer of the risk assessor carries a report that
\* satisfies the schema: an invalid generator output is never passed through.
C3_NoInvalidReportReturned ==
    (Done /\ reqKind = "gemini" /\ response.status = 200) =>
        SchemaValid(response.body.generated_text)

FirstResponseInvalid ==
    /\ HasField(generator_response, "parts")
    /\ generator_response.parts
    /\ ~SchemaValid(generator_response.text)

\* C4: when the generator's first response is invalid the risk assessor
\* re-asks exactly once, so that exactly one repair attempt (a second
\* invocation) is recorded when the call ends.
C4_SingleRepair ==
    (Done /\ reqKind = "gemini" /\ FirstResponseInvalid) => calls.generator = 2

\* C5: when transcription fails the request has failed at once with an error
\* response, and neither analyzer has been invoked.
C5_TranscriptionFailureIsFatal ==
    transcription = "failed" =>
        /\ Done
        /\ response.status >= 400
        /\ calls.classifier = 0
        /\ calls.generator = 0

C5_Witness == Done /\ reqKind = "audio" /\ transcription = "failed" /\ calls.groq = 1

\* C6: when transcription succeeds with an empty transcript neither analyzer
\* is invoked and the request returns a non-error report with an empty
\* transcript and both analyzer results None (not an error entry).
C6_EmptyTranscriptShortCircuit ==
    (reqKind = "audio" /\ transcription = "ok" /\ transcript = "") =>
        /\ Done
        /\ calls.classifier = 0
        /\ calls.generator = 0
        /\ response.status = 200
        /\ response.body.type = "report"
        /\ response.body.transcription = ""
        /\ response.body.sentiment_analysis = NoneVal
        /\ response.body.gemini_analysis = NoneVal

C6_Witness ==
    Done /\ reqKind = "audio" /\ transcription = "ok" /\ transcript = "" /\ calls.groq = 1

\* C7: in an audio request an analyzer is started only after transcription
\* has completed, and the response is produced only when no analyzer call is
\* pending and both analysis steps have stored their result.
C7_TranscribeThenJoin ==
    reqKind = "audio" =>
        /\ (calls.classifier > 0 \/ calls.generator > 0) =>
               (transcription = "ok" /\ "groq" \notin inflight)
        /\ (response # NoneVal) => inflight = {}
        /\ (response # NoneVal /\ AudioAnalysed) =>
               /\ sentiment_analysis_result_dict # NoneVal
               /\ gemini_analysis_result # NoneVal

C7_Witness ==
    Done /\ AudioAnalysed /\ calls.classifier = 1 /\ response.status = 200

C9_TimeoutsBoundWaiting ==
    (inflight \cap {"groq", "classifier", "generator"} # {}) ~> Done

TextKinds == {"analyze_text", "gemini"}

GeneratorDeclined ==
    /\ HasField(generator_response, "parts")
    /\ ~generator_response.parts

\* C11: when the generator declines to respond, the failure of the risk
\* assessor is of its own kind, not the one of a transport failure, and
\* carries the provider's block reason if there is one, else "Unknown reason".
C11_ContentBlockedDistinct ==
    (Done /\ reqKind = "gemini" /\ GeneratorDeclined) =>
        LET detail == response.body.detail IN
        /\ response.status >= 400
        /\ detail[1] # GeminiError(<< >>).detail[1]
        /\ detail[Len(detail)] =
               (IF generator_response.prompt_feedback \notin {"absent", "no_block_reason"}
                THEN generator_response.prompt_feedback
                ELSE "Unknown reason")

ClassifierReturnedEntry ==
    /\ answers["classifier"].type = "returned"
    /\ Len(answers["classifier"].value) > 0

RawEntry == answers["classifier"].value[1]

\* C12: for a text input the sentiment result returned to the caller has the
\* label Suicidal when the classifier emitted LABEL_1 and Non-Suicidal when
\* it emitted LABEL_0, with the classifier's confidence unchanged.
C12_TextLabelMapped ==
    (Done /\ reqKind = "analyze_text" /\ ClassifierReturnedEntry) =>
        LET entry == response.body.items[1] IN
        /\ (RawEntry.label = "LABEL_1") => (entry.label = "Suicidal")
        /\ (RawEntry.label = "LABEL_0") => (entry.label = "Non-Suicidal")
        /\ entry.score = RawEntry.score

\* C13: a raw classifier label that is not in the mapping table results in
\* the label Unknown and a recorded warning, in the sentiment entry of an
\* audio request as in the answer to a text request.
C13_UnmappedLabelIsUnknown ==
    (ClassifierReturnedEntry /\ RawEntry.label \notin {"LABEL_0", "LABEL_1"}) =>
        /\ (reqKind = "audio" /\ sentiment_analysis_result_dict # NoneVal) =>
               /\ sentiment_analysis_result_dict.type = "dict"
               /\ sentiment_analysis_result_dict.label = "Unknown"
        /\ (Done /\ reqKind = "analyze_text") =>
               response.body.items[1].label = "Unknown"
        /\ Done => HasWarnings

\* C14: classifying empty text does not invoke the classification model and
\* returns the default result (Unknown, confidence 0).
C14_EmptyTextNotClassified ==
    (reqKind = "analyze_text" /\ request_text = "") =>
        /\ calls.classifier = 0
        /\ Done => response = OkResponse([type |-> "list",
                                          items |-> <<[label |-> "Unknown", score |-> 0]>>])

\* the category of a score by the fixed thresholds: 0-24 Low, 25-49 Medium,
\* 50-74 High, 75-100 Critical
DeriveCategory(score) ==
    IF score <= 24 THEN "Low"
    ELSE IF score <= 49 THEN "Medium"
    ELSE IF score <= 74 THEN "High"
    ELSE "Critical"

\* C15: in every risk report returned to a caller the risk category is the
\* one derived from the overall risk score by the fixed thresholds.
C15_CategoryDerivedFromScore ==
    (Done /\ reqKind = "gemini" /\ response.status = 200) =>
        LET report == response.body.generated_text IN
        /\ report.overall_risk_score \in 0..100
        /\ report.risk_category = DeriveCategory(report.overall_risk_score)

\* C16: no failure response carries the text of a provider's exception.
C16_NoRawExceptionText ==
    (Done /\ response.status >= 400) =>
        \A p \in Providers :
            (answers[p].type = "raised") =>
                \A i \in DOMAIN response.body.detail :
                    response.body.detail[i] # answers[p].exc

\* C17: an audio request that has the same client state and receives the
\* same provider answers as an audio request served earlier in the process
\* produces the same report, whatever requests were served in between.
C17_SameInputsSameReport ==
    (Done /\ reqKind = "audio") =>
        \A r \in seen :
            (r.client = groq_client /\ r.answers = answers) => (r.report = response)

C17_Witness ==
    /\ Done
    /\ AudioAnalysed
    /\ nreq > 2
    /\ \E r \in seen : r.client = groq_client /\ r.answers = answers /\ r.report = response

\* C18: in an audio request with a non-empty transcript gemini_analyze_text
\* is invoked exactly once, with a request whose text is the transcript.
C18_GeminiInvokedOnce ==
    (Done /\ AudioAnalysed) => (calls.generator = 1 /\ request_text = transcript)

\* C19: the uploaded audio file is closed on every exit path of
\* convert_audio_to_text.
C19_FileClosedOnExit == (Done /\ reqKind = "audio") => file_closed

\* C20: get_text_by_id answers 400 to an id that is no ObjectId, the stored
\* document to an id that has one, 404 to an id that has none, and 500 only
\* when the lookup itself failed.
C20_GetTextByCase ==
    (Done /\ reqKind = "get_text") =>
        /\ response.status =
               (IF ~IsObjectId(id) THEN 400
                ELSE IF answers["mongo"].type = "raised" THEN 500
                ELSE IF id \in text_collection THEN 200
                ELSE 404)
        /\ (response.status = 200) => (response.body = [type |-> "doc", _id |-> id])
ClientNotInitialized == ~startup.GROQ_API \/ startup.constructor_raises

\* C21: when the transcription client was not initialized at startup, an
\* audio request is rejected with 503 at once: the upload is never read and
\* no transcription, classification or generation call is made for it.
C21_NoClientRejects ==
    (reqKind = "audio" /\ ClientNotInitialized) =>
        /\ Done
        /\ response.status = 503
        /\ calls = NoCalls
        /\ inflight = {}
        /\ answers = NoAnswers
        /\ transcription = "none"

C21_Witness ==
    /\ Done
    /\ reqKind = "audio"
    /\ ~startup.GROQ_API
    /\ ~startup.constructor_raises
    /\ response.status = 503
====
